---- MODULE Spec2Model ----
(***************************************************************************)
(* A model of the repository-mutation pipeline of si_gh_actions:           *)
(*   - ciify.py            the guarded three-commit pipeline (main) and    *)
(*                         copy_files_to_root                              *)
(*   - boardlessify.py     stage_and_commit, copy_files_to_root and        *)
(*                         cleanup_yaml_and_files                          *)
(*   - deploy_boardless_versioner.py   cleanup_yaml_and_files              *)
(* The git repository is modelled by its commit graph (a sequence of       *)
(* commits with one parent each), its branch heads, the checked-out        *)
(* branch, the index and the working tree.  File contents are blob ids     *)
(* (0 = no file); the tables below give the text behind the ids where the  *)
(* code reads the text.                                                    *)
(***************************************************************************)
EXTENDS Integers, Sequences, FiniteSets, TLC

(***************************************************************************)
(* Bounds of the model.                                                    *)
(***************************************************************************)
MaxRuns == 2
MaxEdits == 1

(***************************************************************************)
(* Paths, branches, file modes.                                            *)
(***************************************************************************)
GM == ".gitmodules"
GI == ".gitignore"
CL == "CHANGELOG.md"
MF == "app.slcp"
SUB == "si_gh_actions"

\* The plain files of the working tree; SUB is a directory.
FilePaths == {GM, GI, CL, MF}
Paths == FilePaths \cup {SUB}

Branches == {"master", "main", "dev"}

\* Mode of an index entry at SUB: 0 (no entry), a gitlink, or regular files
\* below the path.
Gitlink == 160000
RegularFile == 100644

\* States of the directory si_gh_actions in the working tree.
\*   absent   no directory
\*   empty    an empty directory (an unpopulated submodule)
\*   gitfile  a checkout whose .git is a file (a proper submodule)
\*   gitdir   a checkout with a nested .git directory
\*   plain    the files without any .git
SubdirStates == {"absent", "empty", "gitfile", "gitdir", "plain"}

HasFiles(sd) == sd \in {"gitfile", "gitdir", "plain"}
IsNestedRepo(sd) == sd \in {"gitfile", "gitdir"}

(***************************************************************************)
(* Commit messages are sequences of tokens: "\n" ends a line, " " is       *)
(* white space, every other token is text without white space around it.   *)
(***************************************************************************)
BOARDFUL == "Initial Boardful commit"
CI_ASSETS == "CI: add workflows and metadata"
BOARDLESS == "Initial Boardless commit"
Subjects == {BOARDFUL, CI_ASSETS, BOARDLESS}

\* The message index.commit(message) stores for a one-line subject.
MessageOf(subject) == <<subject>>

RECURSIVE SplitLines(_)
\* str.splitlines(): the lines of a text, without the line ends; no line
\* for an empty text and none after a final line end.
SplitLines(text) ==
    IF text = <<>> THEN <<>>
    ELSE LET brk == {i \in 1..Len(text) : text[i] = "\n"}
         IN  IF brk = {} THEN <<text>>
             ELSE LET i == CHOOSE j \in brk : \A k \in brk : j <= k
                  IN  <<SubSeq(text, 1, i - 1)>>
                          \o SplitLines(SubSeq(text, i + 1, Len(text)))

RECURSIVE LStrip(_)
LStrip(line) ==
    IF line # <<>> /\ Head(line) = " " THEN LStrip(Tail(line)) ELSE line

RECURSIVE RStrip(_)
RStrip(line) ==
    IF line # <<>> /\ line[Len(line)] = " "
    THEN RStrip(SubSeq(line, 1, Len(line) - 1))
    ELSE line

\* str.strip()
Strip(line) == LStrip(RStrip(line))

(***************************************************************************)
(* .gitignore blobs: blob id -> the lines of the file.                     *)
(*   1  the repository's own .gitignore                                    *)
(*   2  the same with the protection line appended                         *)
(*   3  the .gitignore shipped in si_gh_actions                            *)
(*   4  the same with the protection line appended                         *)
(***************************************************************************)
ProtectLine == "!.gitmodules"
GitignoreBlobs ==
    << <<".*">>, <<".*", ProtectLine>>, <<"build/">>, <<"build/", ProtectLine>> >>

GitignoreLines(blob) == GitignoreBlobs[blob]
GitignoreBlobOf(lines) ==
    CHOOSE b \in 1..Len(GitignoreBlobs) : GitignoreBlobs[b] = lines

\* Manifest blobs: blob id -> the ids of the "component" list, each id a
\* sequence of tokens whose first token is its prefix.
ManifestBlobs ==
    << << <<"brd", "4001">>, <<"uart">> >>, << <<"uart">> >> >>

ManifestHasBoardEntry(blob) ==
    /\ blob # 0
    /\ \E i \in 1..Len(ManifestBlobs[blob]) :
          ManifestBlobs[blob][i][1] \in {"brd", "EFR32"}

\* The items copy_files_to_root of ciify.py copies: four files and the
\* directory .github.
VERSION == "VERSION.md"
TARGET_INFO == "target_info.yaml"
GITHUB == ".github"
files_to_copy == <<CL, VERSION, GI, TARGET_INFO>>
dir_to_copy == GITHUB
Items == {CL, VERSION, GI, TARGET_INFO, GITHUB}

\* No manifest file; no interrupted run.
NoFile == [exists |-> FALSE, entries |-> <<>>]
NoCrash ==
    [at |-> "", run |-> 0, branch |-> "",
     index |-> [p \in Paths |-> 0], tree |-> [p \in Paths |-> 0]]

(***************************************************************************)
(* The state.                                                              *)
(***************************************************************************)
VARIABLES
    commits,      \* the commit graph: <<[parent, message, tree], ...>>
    heads,        \* branch name -> tip commit (0: no such branch)
    HEAD,         \* the checked-out branch
    index,        \* path -> staged blob id, or mode at SUB
    wt,           \* file path -> blob id in the working tree
    subdir,       \* state of the directory si_gh_actions
    subIgnore,    \* blob id of si_gh_actions/.gitignore
    pc,           \* position of the run of ciify.main
    run,          \* runs of ciify.main started
    edits,        \* outside changes made between runs
    failedAt,     \* position at which the current run raised ("" if none)
    startHeads,   \* heads when the current run started
    startLen,     \* number of commits when the current run started
    startSubdir,  \* subdir when the current run started
    initLen,      \* number of commits of the starting repository
    inSuccession, \* the current run started where a completed run ended
    fresh,        \* the starting repository was the end-to-end scenario's
    warned,       \* the current run printed the submodule warning
    crash,        \* where the last interrupted run stopped, and what it left
    out,          \* the last line printed by a commit step
    op,           \* <<name, message>> of the last function applied on its own
    calls,        \* functions applied on their own
    ops,          \* the index operations of the last stage_and_commit
    slcp,         \* the .slcp manifest file (NoFile: there is none)
    pintool,      \* a .pintool file exists
    srcItems,     \* item of si_gh_actions/ -> "missing", "ok" or "fails"
    rootItems,    \* the items copied to the repository root
    printed       \* the lines printed by the last copy_files_to_root

repoVars == <<commits, heads, HEAD, index, wt, subdir, subIgnore>>
histVars == <<run, edits, failedAt, startHeads, startLen, startSubdir,
              initLen, inSuccession, fresh, warned, crash>>
unitVars == <<op, calls, ops>>
fileVars == <<slcp, pintool, srcItems, rootItems, printed>>
vars == <<commits, heads, HEAD, index, wt, subdir, subIgnore, pc, run, edits,
          failedAt, startHeads, startLen, startSubdir, initLen, inSuccession,
          fresh, warned, crash, out, op, calls, ops, slcp, pintool, srcItems,
          rootItems, printed>>

(***************************************************************************)
(* Reading the repository.                                                 *)
(***************************************************************************)
RECURSIVE AncestryIn(_, _)
\* The commits of the graph cs reachable from c, the tip first.
AncestryIn(cs, c) ==
    IF c = 0 THEN <<>> ELSE <<c>> \o AncestryIn(cs, cs[c].parent)

\* repo.iter_commits(rev)
Ancestry(c) == AncestryIn(commits, c)

ReachableIn(cs, c) == {AncestryIn(cs, c)[i] : i \in 1..Len(AncestryIn(cs, c))}
Reachable(c) == ReachableIn(commits, c)

HeadTree == commits[heads[HEAD]].tree

branch_exists(name) == heads[name] # 0

RECURSIVE ScanSubject(_, _)
\* The loop of has_commit_with_subject over the commits of seq.  The first
\* line of an empty message does not exist: indexing it raises, and the
\* handler of the function answers False.
ScanSubject(seq, subject) ==
    IF seq = <<>> THEN FALSE
    ELSE LET lines == SplitLines(commits[Head(seq)].message)
         IN  IF lines = <<>> THEN FALSE
             ELSE IF Strip(lines[1]) = <<subject>> THEN TRUE
             ELSE ScanSubject(Tail(seq), subject)

has_commit_with_subject(rev, subject) ==
    IF heads[rev] = 0 THEN FALSE
    ELSE ScanSubject(Ancestry(heads[rev]), subject)

\* A variant that takes every exit status of git diff for a change.
has_staged_changes_any == TRUE

has_staged_changes == index # HeadTree

(***************************************************************************)
(* git checkout <branch> of an existing branch, as git's two-way merge of  *)
(* the tree of HEAD and the target tree T: a path the two trees agree on   *)
(* keeps its index entry and its file (local changes are carried over); a  *)
(* path they differ on must be unchanged in the index and, unless deleted, *)
(* in the working tree, or the checkout fails.                             *)
(***************************************************************************)
CheckoutKeeps(p, T) == HeadTree[p] = T[p] \/ index[p] = T[p]

CheckoutFileOK(p, T) ==
    \/ CheckoutKeeps(p, T)
    \/ index[p] = HeadTree[p] /\ wt[p] \in {index[p], 0}

CheckoutSubOK(T) ==
    \/ CheckoutKeeps(SUB, T)
    \/ /\ index[SUB] = HeadTree[SUB]
       /\ T[SUB] = RegularFile => subdir \in {"absent", "empty"}
       /\ (HeadTree[SUB] = 0 /\ T[SUB] = Gitlink) => subdir # "plain"

CanCheckout(name) ==
    LET T == commits[heads[name]].tree
    IN  CheckoutSubOK(T) /\ \A p \in FilePaths : CheckoutFileOK(p, T)

CheckoutIndex(name) ==
    LET T == commits[heads[name]].tree
    IN  [p \in Paths |-> IF CheckoutKeeps(p, T) THEN index[p] ELSE T[p]]

CheckoutWt(name) ==
    LET T == commits[heads[name]].tree
    IN  [p \in FilePaths |-> IF CheckoutKeeps(p, T) THEN wt[p] ELSE T[p]]

\* git checkout does not populate or remove a submodule's checkout; it
\* writes and removes the files it tracks below the path.
CheckoutSubdir(name) ==
    LET T == commits[heads[name]].tree
    IN  IF CheckoutKeeps(SUB, T) THEN subdir
        ELSE IF T[SUB] = RegularFile THEN "plain"
        ELSE IF HeadTree[SUB] = RegularFile
             THEN IF subdir \in {"plain", "absent"}
                  THEN (IF T[SUB] = Gitlink THEN "empty" ELSE "absent")
                  ELSE subdir
        ELSE IF T[SUB] = Gitlink
             THEN (IF subdir = "absent" THEN "empty" ELSE subdir)
        ELSE (IF subdir = "empty" THEN "absent" ELSE subdir)

(***************************************************************************)
(* git add si_gh_actions.  A path with entries in the index keeps their    *)
(* kind; a path without entries is added as a gitlink when the directory   *)
(* is a repository of its own and as regular files otherwise.  A missing   *)
(* directory the index does not know is a pathspec error.                  *)
(***************************************************************************)
GitAddSubRaises(mode, sd) == mode = 0 /\ sd = "absent"

GitAddSubMode(mode, sd) ==
    IF sd = "absent" THEN 0
    ELSE IF mode = Gitlink THEN Gitlink
    ELSE IF mode = RegularFile THEN (IF HasFiles(sd) THEN RegularFile ELSE 0)
    ELSE IF IsNestedRepo(sd) THEN Gitlink
    ELSE IF sd = "plain" THEN RegularFile
    ELSE 0

(***************************************************************************)
(* The starting repositories.  One line of history on the start branch,    *)
(* every commit with the same tree; dev absent, at the same tip, or one    *)
(* CI-assets commit ahead.                                                 *)
(***************************************************************************)
OtherMsg == <<"Import vendor sources">>
EmptyMsg == <<>>
PaddedMsg(subject) == <<" ", subject, " ", "\n", "\n", "body">>

StartHistories ==
    { <<OtherMsg>>,
      <<OtherMsg, MessageOf(BOARDFUL)>>,
      <<OtherMsg, MessageOf(BOARDFUL), EmptyMsg>>,
      <<OtherMsg, PaddedMsg(BOARDFUL)>> }

StartTree(gm, sub, gi) ==
    (GM :> gm) @@ (SUB :> sub) @@ (GI :> gi) @@ (CL :> 0) @@ (MF :> 1)

Init ==
    \E gm \in {0, 1}, sub \in {0, Gitlink}, gi \in {0, 1, 3},
       hist \in StartHistories, b0 \in {"master", "main"},
       dev \in {"none", "same", "ci"}, onDev \in BOOLEAN, staged \in BOOLEAN,
       sd \in SubdirStates, si \in {3, 4} :
        LET T == StartTree(gm, sub, gi)
            n == Len(hist)
            line == [i \in 1..n |->
                       [parent |-> i - 1, message |-> hist[i], tree |-> T]]
            ciCommit == [parent |-> n, message |-> MessageOf(CI_ASSETS),
                         tree |-> [T EXCEPT ![CL] = 1]]
            hs == [b \in Branches |->
                     IF b = "dev"
                     THEN (IF dev = "none" THEN 0
                           ELSE IF dev = "same" THEN n ELSE n + 1)
                     ELSE IF b = b0 THEN n ELSE 0]
            cs == IF dev = "ci" THEN Append(line, ciCommit) ELSE line
            h == IF onDev THEN "dev" ELSE b0
            ht == cs[hs[h]].tree
            ix == IF staged THEN [ht EXCEPT ![GM] = 1, ![SUB] = Gitlink] ELSE ht
        IN  /\ sub = Gitlink => gm = 1
            /\ onDev => dev # "none"
            /\ staged => sub = 0
            /\ commits = cs
            /\ heads = hs
            /\ HEAD = h
            /\ index = ix
            /\ wt = [p \in FilePaths |-> ix[p]]
            /\ subdir = sd
            /\ subIgnore = si
            /\ pc = "idle"
            /\ run = 0
            /\ edits = 0
            /\ failedAt = ""
            /\ startHeads = hs
            /\ startLen = Len(cs)
            /\ startSubdir = sd
            /\ initLen = Len(cs)
            /\ inSuccession = FALSE
            /\ fresh = /\ b0 = "master" /\ dev = "none" /\ hist = <<OtherMsg>>
                       /\ HasFiles(sd) /\ ManifestHasBoardEntry(T[MF])
            /\ warned = FALSE
            /\ crash = NoCrash
            /\ out = ""
            /\ op = <<>>
            /\ calls = 0
            /\ ops = <<>>
            /\ slcp = NoFile
            /\ pintool = FALSE
            /\ srcItems = [i \in Items |-> "missing"]
            /\ rootItems = {}
            /\ printed = <<>>

(***************************************************************************)
(* The helpers of ciify.py.                                                *)
(***************************************************************************)
Raise(at) == pc' = "aborted" /\ failedAt' = at

\* repo.git.checkout(name): a failing checkout raises GitCommandError.
git_checkout(name, next, at) ==
    IF CanCheckout(name)
    THEN /\ HEAD' = name
         /\ index' = CheckoutIndex(name)
         /\ wt' = CheckoutWt(name)
         /\ subdir' = CheckoutSubdir(name)
         /\ pc' = next
         /\ failedAt' = ""
    ELSE /\ UNCHANGED <<HEAD, index, wt, subdir>>
         /\ Raise(at)

protect_gitmodules(w) ==
    IF w[GI] = 0 THEN w
    ELSE IF \E i \in 1..Len(GitignoreLines(w[GI])) :
               GitignoreLines(w[GI])[i] = ProtectLine
         THEN w
         ELSE [w EXCEPT
                 ![GI] = GitignoreBlobOf(Append(GitignoreLines(w[GI]), ProtectLine))]

\* A variant that leaves the directory alone.
preclean_keeps(sd) == sd

preclean_submodule_git(sd) == IF sd = "gitdir" THEN "plain" ELSE sd

\* The index after stage_submodule_and_ci: the files that exist are added,
\* a file that does not exist keeps the entry it has.
StagedIndex ==
    [p \in Paths |->
        IF p = SUB THEN GitAddSubMode(index[SUB], subdir)
        ELSE IF p \in {GM, GI, CL} /\ wt[p] # 0 THEN wt[p]
        ELSE index[p]]

\* git add si_gh_actions raises after .gitmodules has been added.
stage_submodule_and_ci(next, at) ==
    IF GitAddSubRaises(index[SUB], subdir)
    THEN /\ index' = [index EXCEPT ![GM] = IF wt[GM] # 0 THEN wt[GM] ELSE @]
         /\ Raise(at)
    ELSE /\ index' = StagedIndex
         /\ pc' = next
         /\ UNCHANGED failedAt

\* The mode ls-files --stage reports for the path is that of a gitlink.
GitlinkStaged == index[SUB] = Gitlink

\* A variant that reports the mode and goes on.
assert_gitlink_warns(next, at) == pc' = next /\ UNCHANGED failedAt

assert_gitlink(next, at) ==
    IF GitlinkStaged THEN pc' = next /\ UNCHANGED failedAt ELSE Raise(at)

\* repo.index.commit(message) on the checked-out branch, of the index ix.
index_commit(message, ix) ==
    /\ commits' = Append(commits, [parent |-> heads[HEAD],
                                   message |-> MessageOf(message),
                                   tree |-> ix])
    /\ heads' = [heads EXCEPT ![HEAD] = Len(commits) + 1]

CommitMade == "Commit made"
NoStagedChanges == "No staged changes; skipping commit."
NoChanges == "No changes to commit."

commit_if_staged(message) ==
    IF has_staged_changes
    THEN index_commit(message, index) /\ out' = CommitMade
    ELSE UNCHANGED <<commits, heads>> /\ out' = NoStagedChanges

copy_files_to_root(w) ==
    IF HasFiles(subdir) THEN [w EXCEPT ![CL] = 1, ![GI] = subIgnore] ELSE w

(***************************************************************************)
(* ciify.main, one action per statement.  An exception leaves main: the    *)
(* run is over (pc = "aborted").                                           *)
(***************************************************************************)
Resting == {"idle", "done", "aborted", "crashed"}

\* Step 1: get onto main (checkout, or rename the current branch).
Main_EnsureMain ==
    /\ pc \in Resting
    /\ run < MaxRuns
    /\ run' = run + 1
    /\ startHeads' = heads
    /\ startLen' = Len(commits)
    /\ startSubdir' = subdir
    /\ inSuccession' = (pc = "done")
    /\ IF branch_exists("main")
       THEN /\ git_checkout("main", "protect", "ensure_main")
            /\ UNCHANGED heads
       ELSE /\ heads' = [heads EXCEPT !["main"] = heads[HEAD], ![HEAD] = 0]
            /\ HEAD' = "main"
            /\ pc' = "protect"
            /\ failedAt' = ""
            /\ UNCHANGED <<index, wt, subdir>>
    /\ warned' = FALSE
    /\ UNCHANGED <<commits, subIgnore, edits, initLen, fresh, crash>>
    /\ UNCHANGED <<out, op, calls, ops>>
    /\ UNCHANGED fileVars

\* Step 2: submodule hygiene.
Main_Protect ==
    /\ pc = "protect"
    /\ wt' = protect_gitmodules(wt)
    /\ pc' = "preclean"
    /\ UNCHANGED <<commits, heads, HEAD, index, subdir, subIgnore>>
    /\ UNCHANGED histVars
    /\ UNCHANGED <<out, op, calls, ops>>
    /\ UNCHANGED fileVars

Main_Preclean ==
    /\ pc = "preclean"
    /\ subdir' = preclean_submodule_git(subdir)
    /\ pc' = "submodule"
    /\ UNCHANGED <<commits, heads, HEAD, index, wt, subIgnore>>
    /\ UNCHANGED histVars
    /\ UNCHANGED <<out, op, calls, ops>>
    /\ UNCHANGED fileVars

\* A variant without the handler: the GitCommandError leaves main.
submodule_fatal(next, at) == Raise(at) /\ warned' = TRUE

\* except GitCommandError as e: print("Submodule sync/update warning ...")
except_GitCommandError(next, at) ==
    pc' = next /\ UNCHANGED failedAt /\ warned' = TRUE

\* The outcomes of git submodule sync followed by git submodule update
\* --init: both succeed, or one of them raises GitCommandError (the update
\* is not run after a failing sync).
SubmoduleOutcomes == {"ok", "sync_fails", "update_fails"}

\* A successful update populates the submodules the index records as
\* gitlinks.
Main_SubmoduleUpdate ==
    /\ pc = "submodule"
    /\ \E outcome \in SubmoduleOutcomes :
          /\ subdir' = IF outcome = "ok" /\ index[SUB] = Gitlink /\ wt[GM] # 0
                       THEN "gitfile" ELSE subdir
          /\ IF outcome = "ok"
             THEN pc' = "guard3" /\ UNCHANGED <<failedAt, warned>>
             ELSE except_GitCommandError("guard3", "submodule")
    /\ UNCHANGED <<commits, heads, HEAD, index, wt, subIgnore>>
    /\ UNCHANGED <<run, edits, startHeads, startLen, startSubdir, initLen,
                 inSuccession, fresh, crash>>
    /\ UNCHANGED <<out, op, calls, ops>>
    /\ UNCHANGED fileVars

\* Step 3: the Boardful commit on main.
Main_Guard3 ==
    /\ pc = "guard3"
    /\ pc' = IF ~has_commit_with_subject("main", BOARDFUL)
             THEN "stage3" ELSE "ensure_dev"
    /\ UNCHANGED repoVars
    /\ UNCHANGED histVars
    /\ UNCHANGED <<out, op, calls, ops>>
    /\ UNCHANGED fileVars

Main_Stage3 ==
    /\ pc = "stage3"
    /\ stage_submodule_and_ci("assert3", "stage3")
    /\ UNCHANGED <<commits, heads, HEAD, wt, subdir, subIgnore>>
    /\ UNCHANGED <<run, edits, startHeads, startLen, startSubdir, initLen,
                 inSuccession, fresh, warned, crash>>
    /\ UNCHANGED <<out, op, calls, ops>>
    /\ UNCHANGED fileVars

Main_Assert3 ==
    /\ pc = "assert3"
    /\ assert_gitlink("commit3", "assert3")
    /\ UNCHANGED repoVars
    /\ UNCHANGED <<run, edits, startHeads, startLen, startSubdir, initLen,
                 inSuccession, fresh, warned, crash>>
    /\ UNCHANGED <<out, op, calls, ops>>
    /\ UNCHANGED fileVars

Main_Commit3 ==
    /\ pc = "commit3"
    /\ commit_if_staged(BOARDFUL)
    /\ pc' = "ensure_dev"
    /\ UNCHANGED <<HEAD, index, wt, subdir, subIgnore>>
    /\ UNCHANGED histVars
    /\ UNCHANGED unitVars
    /\ UNCHANGED fileVars

\* Step 4: ensure_checked_out(repo, "dev").
Main_EnsureDev ==
    /\ pc = "ensure_dev"
    /\ IF branch_exists("dev")
       THEN /\ git_checkout("dev", "guard5", "ensure_dev")
            /\ UNCHANGED heads
       ELSE /\ heads' = [heads EXCEPT !["dev"] = heads[HEAD]]
            /\ HEAD' = "dev"
            /\ pc' = "guard5"
            /\ UNCHANGED <<index, wt, subdir, failedAt>>
    /\ UNCHANGED <<commits, subIgnore>>
    /\ UNCHANGED <<run, edits, startHeads, startLen, startSubdir, initLen,
                 inSuccession, fresh, warned, crash>>
    /\ UNCHANGED <<out, op, calls, ops>>
    /\ UNCHANGED fileVars

\* Step 5: the CI-assets commit on dev.
Main_Guard5 ==
    /\ pc = "guard5"
    /\ pc' = IF ~has_commit_with_subject("dev", CI_ASSETS)
             THEN "copy5" ELSE "guard6"
    /\ UNCHANGED repoVars
    /\ UNCHANGED histVars
    /\ UNCHANGED <<out, op, calls, ops>>
    /\ UNCHANGED fileVars

Main_Copy5 ==
    /\ pc = "copy5"
    /\ wt' = copy_files_to_root(wt)
    /\ pc' = "stage5"
    /\ UNCHANGED <<commits, heads, HEAD, index, subdir, subIgnore>>
    /\ UNCHANGED histVars
    /\ UNCHANGED <<out, op, calls, ops>>
    /\ UNCHANGED fileVars

Main_Stage5 ==
    /\ pc = "stage5"
    /\ stage_submodule_and_ci("commit5", "stage5")
    /\ UNCHANGED <<commits, heads, HEAD, wt, subdir, subIgnore>>
    /\ UNCHANGED <<run, edits, startHeads, startLen, startSubdir, initLen,
                 inSuccession, fresh, warned, crash>>
    /\ UNCHANGED <<out, op, calls, ops>>
    /\ UNCHANGED fileVars

Main_Commit5 ==
    /\ pc = "commit5"
    /\ commit_if_staged(CI_ASSETS)
    /\ pc' = "guard6"
    /\ UNCHANGED <<HEAD, index, wt, subdir, subIgnore>>
    /\ UNCHANGED histVars
    /\ UNCHANGED unitVars
    /\ UNCHANGED fileVars

\* Step 6: the Boardless commit on dev.
Main_Guard6 ==
    /\ pc = "guard6"
    /\ pc' = IF ~has_commit_with_subject("dev", BOARDLESS)
             THEN "stage6" ELSE "done"
    /\ UNCHANGED repoVars
    /\ UNCHANGED histVars
    /\ UNCHANGED <<out, op, calls, ops>>
    /\ UNCHANGED fileVars

Main_Stage6 ==
    /\ pc = "stage6"
    /\ stage_submodule_and_ci("assert6", "stage6")
    /\ UNCHANGED <<commits, heads, HEAD, wt, subdir, subIgnore>>
    /\ UNCHANGED <<run, edits, startHeads, startLen, startSubdir, initLen,
                 inSuccession, fresh, warned, crash>>
    /\ UNCHANGED <<out, op, calls, ops>>
    /\ UNCHANGED fileVars

Main_Assert6 ==
    /\ pc = "assert6"
    /\ assert_gitlink("commit6", "assert6")
    /\ UNCHANGED repoVars
    /\ UNCHANGED <<run, edits, startHeads, startLen, startSubdir, initLen,
                 inSuccession, fresh, warned, crash>>
    /\ UNCHANGED <<out, op, calls, ops>>
    /\ UNCHANGED fileVars

Main_Commit6 ==
    /\ pc = "commit6"
    /\ commit_if_staged(BOARDLESS)
    /\ pc' = "done"
    /\ UNCHANGED <<HEAD, index, wt, subdir, subIgnore>>
    /\ UNCHANGED histVars
    /\ UNCHANGED unitVars
    /\ UNCHANGED fileVars

\* The outside world: between two runs somebody edits CHANGELOG.md or
\* clones the CI assets anew into si_gh_actions.
EnvEdit ==
    /\ pc \in {"done", "aborted"}
    /\ edits < MaxEdits
    /\ edits' = edits + 1
    /\ pc' = "idle"
    /\ \E e \in {"changelog", "reclone"} :
          /\ wt' = IF e = "changelog" THEN [wt EXCEPT ![CL] = 2] ELSE wt
          /\ subdir' = IF e = "reclone" THEN "gitdir" ELSE subdir
    /\ UNCHANGED <<commits, heads, HEAD, index, subIgnore>>
    /\ UNCHANGED <<run, failedAt, startHeads, startLen, startSubdir, initLen,
                 inSuccession, fresh, warned, crash>>
    /\ UNCHANGED <<out, op, calls, ops>>
    /\ UNCHANGED fileVars

Next ==
    \/ Main_EnsureMain
    \/ Main_Protect
    \/ Main_Preclean
    \/ Main_SubmoduleUpdate
    \/ Main_Guard3
    \/ Main_Stage3
    \/ Main_Assert3
    \/ Main_Commit3
    \/ Main_EnsureDev
    \/ Main_Guard5
    \/ Main_Copy5
    \/ Main_Stage5
    \/ Main_Commit5
    \/ Main_Guard6
    \/ Main_Stage6
    \/ Main_Assert6
    \/ Main_Commit6
    \/ EnvEdit

Spec == Init /\ [][Next]_vars

(***************************************************************************)
(* The pipeline with interrupted runs: the process running ciify.main is   *)
(* killed after the staging of a step (3, 5 or 6) and before that step's   *)
(* commit.  The repository stays as it is; the next run starts from it.    *)
(***************************************************************************)
\* The positions between the staging and the commit of a step.
StagedSteps ==
    [assert3 |-> "step3", commit3 |-> "step3", commit5 |-> "step5",
     assert6 |-> "step6", commit6 |-> "step6"]

Main_Crash ==
    /\ pc \in DOMAIN StagedSteps
    /\ run < MaxRuns
    /\ crash' = [at |-> StagedSteps[pc], run |-> run, branch |-> HEAD,
                 index |-> index, tree |-> HeadTree]
    /\ pc' = "crashed"
    /\ UNCHANGED repoVars
    /\ UNCHANGED <<run, edits, failedAt, startHeads, startLen, startSubdir,
                 initLen, inSuccession, fresh, warned>>
    /\ UNCHANGED <<out, op, calls, ops>>
    /\ UNCHANGED fileVars

NextCrash == Next \/ Main_Crash

SpecCrash == Init /\ [][NextCrash]_vars

(***************************************************************************)
(* The commit steps on their own: commit_if_staged and commit_if_needed of *)
(* ciify.py and stage_and_commit of boardlessify.py, applied to            *)
(* repositories with one commit (.gitignore and CHANGELOG.md tracked,       *)
(* .gitmodules tracked or not) whose index and working tree differ from it *)
(* in every way three blobs per file allow.  si_gh_actions is absent.      *)
(***************************************************************************)
MaxCalls == 2

DotFiles == {GM, GI}

\* A line of .gitignore matches a path: ".*" the dot files, the protection
\* line .gitmodules (which it takes out again).
Matches(pattern, p) ==
    \/ pattern = ".*" /\ p \in DotFiles
    \/ pattern = ProtectLine /\ p = GM

\* The last matching line decides.
Ignored(p, w) ==
    /\ w[GI] # 0
    /\ LET L == GitignoreLines(w[GI])
           m == {i \in 1..Len(L) : Matches(L[i], p)}
       IN  /\ m # {}
           /\ L[CHOOSE i \in m : \A j \in m : j <= i] # ProtectLine

\* git ls-files --others --exclude-standard
UntrackedFiles(ix, w) ==
    {p \in FilePaths : ix[p] = 0 /\ w[p] # 0 /\ ~Ignored(p, w)}

\* repo.index.diff(None): the tracked paths that differ in the working tree
ModifiedFiles(ix, w) == {p \in FilePaths : ix[p] # 0 /\ ix[p] # w[p]}

\* ... and those of them with change type "D".
DeletedFiles(ix, w) == {p \in ModifiedFiles(ix, w) : w[p] = 0}

\* A variant that adds every modified path.
RemainingModifiedAll(modified, deleted) == modified

RemainingModified(modified, deleted) == modified \ deleted

\* repo.is_dirty(index=True, working_tree=True, untracked_files=True)
is_dirty ==
    \/ index # HeadTree
    \/ ModifiedFiles(index, wt) # {}
    \/ UntrackedFiles(index, wt) # {}

commit_if_needed(message) ==
    IF is_dirty
    THEN index_commit(message, index) /\ out' = CommitMade
    ELSE UNCHANGED <<commits, heads>> /\ out' = NoChanges

\* boardlessify.stage_and_commit: the three index operations, each made
\* only for a list that is not empty, and the commit.
stage_and_commit(message) ==
    LET untracked == UntrackedFiles(index, wt)
        ix1 == [p \in Paths |-> IF p \in untracked THEN wt[p] ELSE index[p]]
        modified == ModifiedFiles(ix1, wt)
        deleted == DeletedFiles(ix1, wt)
        ix2 == [p \in Paths |-> IF p \in deleted THEN 0 ELSE ix1[p]]
        remaining == RemainingModified(modified, deleted)
        ix3 == [p \in Paths |-> IF p \in remaining THEN wt[p] ELSE ix2[p]]
        log(kind, paths) ==
            IF paths = {} THEN <<>> ELSE <<[kind |-> kind, paths |-> paths]>>
    IN  /\ index' = ix3
        /\ ops' = log("add", untracked) \o log("remove", deleted)
                      \o log("add", remaining)
        /\ IF untracked # {} \/ modified # {} \/ deleted # {}
           THEN index_commit(message, ix3) /\ out' = CommitMade
           ELSE UNCHANGED <<commits, heads>> /\ out' = NoChanges

InitCommit ==
    \E gm \in {0, 1},
       ix \in [{GM, GI, CL} -> {0, 1, 2}],
       w \in [{GM, GI, CL} -> {0, 1, 2}] :
        LET T == (MF :> 1) @@ (SUB :> 0) @@ (GM :> gm) @@ (GI :> 1) @@ (CL :> 1)
        IN  /\ ix[GM] # 2 /\ w[GM] # 2
            /\ commits = <<[parent |-> 0, message |-> OtherMsg, tree |-> T]>>
            /\ heads = [b \in Branches |-> IF b = "main" THEN 1 ELSE 0]
            /\ HEAD = "main"
            /\ index = (MF :> 1) @@ (SUB :> 0) @@ ix
            /\ wt = (MF :> 1) @@ w
            /\ subdir = "absent"
            /\ subIgnore = 3
            /\ pc = "unit"
            /\ run = 0
            /\ edits = 0
            /\ failedAt = ""
            /\ startHeads = heads
            /\ startLen = 1
            /\ startSubdir = "absent"
            /\ initLen = 1
            /\ inSuccession = FALSE
            /\ fresh = FALSE
            /\ warned = FALSE
            /\ crash = NoCrash
            /\ out = ""
            /\ op = <<>>
            /\ calls = 0
            /\ ops = <<>>
            /\ slcp = NoFile
            /\ pintool = FALSE
            /\ srcItems = [i \in Items |-> "missing"]
            /\ rootItems = {}
            /\ printed = <<>>

Called(name, message) ==
    /\ pc = "unit"
    /\ calls < MaxCalls
    /\ calls' = calls + 1
    /\ op' = <<name, message>>
    /\ UNCHANGED <<HEAD, wt, subdir, subIgnore, pc>>
    /\ UNCHANGED histVars
    /\ UNCHANGED fileVars

U_CommitIfStaged ==
    \E message \in {BOARDFUL, BOARDLESS} :
        /\ Called("commit_if_staged", message)
        /\ commit_if_staged(message)
        /\ UNCHANGED <<index, ops>>

U_CommitIfNeeded ==
    \E message \in {BOARDFUL, BOARDLESS} :
        /\ Called("commit_if_needed", message)
        /\ commit_if_needed(message)
        /\ UNCHANGED <<index, ops>>

U_StageAndCommit ==
    \E message \in {BOARDFUL, BOARDLESS} :
        /\ Called("stage_and_commit", message)
        /\ stage_and_commit(message)

NextCommit == U_CommitIfStaged \/ U_CommitIfNeeded \/ U_StageAndCommit

SpecCommit == InitCommit /\ [][NextCommit]_vars

(***************************************************************************)
(* The manifest editor: cleanup_yaml_and_files of boardlessify.py and of   *)
(* deploy_boardless_versioner.py.  Strings are sequences of characters.    *)
(* A manifest file is the sequence of its top-level entries in the order   *)
(* of the file; the value of an entry is a list of items or something      *)
(* else; an item is a mapping (with or without an "id") or something else. *)
(***************************************************************************)
MaxItems == 3

StartsWith(str, prefix) ==
    /\ Len(str) >= Len(prefix)
    /\ SubSeq(str, 1, Len(prefix)) = prefix

brd == <<"b", "r", "d">>
EFR32 == <<"E", "F", "R", "3", "2">>
efr32 == <<"e", "f", "r", "3", "2">>

\* The characters of the model in the order of their code points.
Alphabet ==
    <<"0", "1", "2", "3", "4", "E", "F", "G", "M", "R", "_", "a", "b", "c",
      "d", "e", "f", "g", "m", "n", "o", "p", "r", "t", "u", "x">>

CodePoint(ch) == CHOOSE i \in 1..Len(Alphabet) : Alphabet[i] = ch

RECURSIVE StrLess(_, _)
\* a < b for two strings
StrLess(a, b) ==
    IF b = <<>> THEN FALSE
    ELSE IF a = <<>> THEN TRUE
    ELSE IF Head(a) = Head(b) THEN StrLess(Tail(a), Tail(b))
    ELSE CodePoint(Head(a)) < CodePoint(Head(b))

COMPONENT == <<"c", "o", "m", "p", "o", "n", "e", "n", "t">>
NameKey == <<"n", "a", "m", "e">>
BrdKey == <<"b", "r", "d", "_", "x">>
UpperKey == <<"E", "F", "R", "3", "2", "_", "x">>
LowerKey == <<"e", "f", "r", "3", "2", "_", "x">>

\* The ids of the component records.
Brd4001 == <<"b", "r", "d", "4", "0", "0", "1">>
EFR32MG12 == <<"E", "F", "R", "3", "2", "M", "G", "1", "2">>
Efr32mg12 == <<"e", "f", "r", "3", "2", "m", "g", "1", "2">>
Uart == <<"u", "a", "r", "t">>
Abrd == <<"a", "b", "r", "d">>

Record(id) == [dict |-> TRUE, hasId |-> TRUE, id |-> id]
RecordWithoutId == [dict |-> TRUE, hasId |-> FALSE, id |-> <<>>]
\* An item that is a plain string.
Scalar(text) == [dict |-> FALSE, hasId |-> FALSE, id |-> text]

ComponentItems ==
    {Record(Brd4001), Record(EFR32MG12), Record(Efr32mg12), Record(Uart),
     Record(Abrd), RecordWithoutId, Scalar(Brd4001)}

Entry(key, isList, items) == [key |-> key, list |-> isList, items |-> items]

RECURSIVE SortByKey(_)
\* The entries in the order of their keys.
SortByKey(entries) ==
    IF entries = <<>> THEN <<>>
    ELSE LET i == CHOOSE j \in 1..Len(entries) :
                     \A k \in 1..Len(entries) :
                         k # j => StrLess(entries[j].key, entries[k].key)
         IN  <<entries[i]>>
                 \o SortByKey(SubSeq(entries, 1, i - 1)
                                 \o SubSeq(entries, i + 1, Len(entries)))

\* yaml.safe_load: the mapping of the file, its keys in the order read.
safe_load(file) == file.entries

\* yaml.safe_dump: the mapping written with its keys sorted.
safe_dump(data) == [exists |-> TRUE, entries |-> SortByKey(data)]

\* A variant that looks for the prefix "brd" only.
is_board_id_brd_only(id) == StartsWith(id, brd)

\* id_value.startswith("brd") or id_value.startswith("EFR32")
is_board_id(id) == StartsWith(id, brd) \/ StartsWith(id, EFR32)

RECURSIVE FilterComponents(_)
\* The loop over yaml_data["component"].
FilterComponents(items) ==
    IF items = <<>> THEN <<>>
    ELSE LET item == Head(items)
         IN  IF item.dict /\ item.hasId /\ is_board_id(item.id)
             THEN FilterComponents(Tail(items))
             ELSE <<item>> \o FilterComponents(Tail(items))

\* boardlessify.cleanup_yaml_and_files, the manifest part.
cleanup_components(file) ==
    IF ~file.exists THEN file
    ELSE LET yaml_data == safe_load(file)
             updated ==
                 [i \in 1..Len(yaml_data) |->
                     IF yaml_data[i].key = COMPONENT /\ yaml_data[i].list
                     THEN [yaml_data[i] EXCEPT
                             !.items = FilterComponents(yaml_data[i].items)]
                     ELSE yaml_data[i]]
         IN  safe_dump(updated)

\* k.startswith("brd") or k.startswith("efr32")
is_board_key(k) == StartsWith(k, brd) \/ StartsWith(k, efr32)

RECURSIVE FilterKeys(_)
FilterKeys(entries) ==
    IF entries = <<>> THEN <<>>
    ELSE IF is_board_key(Head(entries).key) THEN FilterKeys(Tail(entries))
    ELSE <<Head(entries)>> \o FilterKeys(Tail(entries))

\* deploy_boardless_versioner.cleanup_yaml_and_files, the manifest part.
cleanup_keys(file) ==
    IF ~file.exists THEN file
    ELSE safe_dump(FilterKeys(safe_load(file)))

SeqsUpTo(S, n) == UNION {[1..k -> S] : k \in 0..n}

\* The repository the file functions are applied in: one commit on main,
\* nothing pending; the files they work on are given.
InitFiles(file, pt, src) ==
    LET T == (MF :> 1) @@ (SUB :> 0) @@ (GM :> 0) @@ (GI :> 1) @@ (CL :> 1)
    IN  /\ commits = <<[parent |-> 0, message |-> OtherMsg, tree |-> T]>>
        /\ heads = [b \in Branches |-> IF b = "main" THEN 1 ELSE 0]
        /\ HEAD = "main"
        /\ index = T
        /\ wt = [p \in FilePaths |-> T[p]]
        /\ subdir = "absent"
        /\ subIgnore = 3
        /\ pc = "unit"
        /\ run = 0
        /\ edits = 0
        /\ failedAt = ""
        /\ startHeads = heads
        /\ startLen = 1
        /\ startSubdir = "absent"
        /\ initLen = 1
        /\ inSuccession = FALSE
        /\ fresh = FALSE
        /\ warned = FALSE
        /\ crash = NoCrash
        /\ out = ""
        /\ op = <<>>
        /\ calls = 0
        /\ ops = <<>>
        /\ slcp = file
        /\ pintool = pt
        /\ srcItems = src
        /\ rootItems = {}
        /\ printed = <<>>

\* The manifests: a name, board-like and other top-level keys, and a
\* "component" entry that is absent, not a list, or a list of items; the
\* keys in one of two orders.  Or no manifest at all.
InitManifest ==
    \E comp \in {"absent", "scalar", "list"},
       items \in SeqsUpTo(ComponentItems, MaxItems),
       others \in SUBSET {BrdKey, UpperKey, LowerKey},
       reversed \in BOOLEAN, pt \in BOOLEAN, present \in BOOLEAN :
        LET all == << Entry(NameKey, FALSE, <<>>),
                      Entry(COMPONENT, comp = "list", items),
                      Entry(BrdKey, FALSE, <<>>),
                      Entry(LowerKey, FALSE, <<>>),
                      Entry(UpperKey, FALSE, <<>>) >>
            inFile(e) == \/ e.key = NameKey
                         \/ e.key = COMPONENT /\ comp # "absent"
                         \/ e.key \in others
            entries == SelectSeq(all, inFile)
            n == Len(entries)
            file == [exists |-> TRUE,
                     entries |-> IF reversed
                                 THEN [i \in 1..n |-> entries[n + 1 - i]]
                                 ELSE entries]
        IN  /\ comp # "list" => items = <<>>
            /\ ~present => (comp = "absent" /\ others = {} /\ ~reversed)
            /\ InitFiles(IF present THEN file ELSE NoFile, pt,
                         [i \in Items |-> "missing"])

CalledOnFiles(name, input) ==
    /\ pc = "unit"
    /\ calls < MaxCalls
    /\ calls' = calls + 1
    /\ op' = <<name, input>>
    /\ UNCHANGED <<repoVars, pc, out, ops>>
    /\ UNCHANGED histVars

BoardlessifyCleanup == "boardlessify.cleanup_yaml_and_files"
DeployCleanup == "deploy_boardless_versioner.cleanup_yaml_and_files"

\* boardlessify.cleanup_yaml_and_files: the manifest is rewritten, the
\* .pintool file deleted.
U_CleanupComponents ==
    /\ CalledOnFiles(BoardlessifyCleanup, slcp)
    /\ slcp' = cleanup_components(slcp)
    /\ pintool' = FALSE
    /\ UNCHANGED <<srcItems, rootItems, printed>>

\* deploy_boardless_versioner.cleanup_yaml_and_files
U_CleanupKeys ==
    /\ CalledOnFiles(DeployCleanup, slcp)
    /\ slcp' = cleanup_keys(slcp)
    /\ pintool' = FALSE
    /\ UNCHANGED <<srcItems, rootItems, printed>>

NextManifest == U_CleanupComponents \/ U_CleanupKeys

SpecManifest == InitManifest /\ [][NextManifest]_vars

(***************************************************************************)
(* The asset importer on its own: copy_files_to_root of ciify.py and of    *)
(* boardlessify.py, item by item.  A source item is missing, copies, or    *)
(* exists and fails to copy (shutil raises).  The state of a call is what  *)
(* it has put at the root, what it has printed and whether an exception is *)
(* in flight.                                                              *)
(***************************************************************************)
ItemStates == {"missing", "ok", "fails"}

NotFound == "not found"
Copied == "Copied"
ErrorCopying == "Error copying"

\* The list of boardlessify.py has no target_info.yaml.
files_to_copy_boardlessify == <<CL, VERSION, GI>>

\* The body of a try block: os.path.exists, then shutil.copy or copytree.
try_copy(item, st) ==
    IF srcItems[item] = "missing"
    THEN [st EXCEPT !.printed = Append(@, <<NotFound, item>>)]
    ELSE IF srcItems[item] = "fails"
         THEN [st EXCEPT !.raised = TRUE]
         ELSE [st EXCEPT !.root = @ \cup {item},
                         !.printed = Append(@, <<Copied, item>>)]

\* A variant of the handler that lets the exception go on.
except_reraise(item, st) == st

\* except Exception as e: print(...)
except_Exception(item, st) ==
    IF st.raised
    THEN [st EXCEPT !.raised = FALSE,
                    !.printed = Append(@, <<ErrorCopying, item>>)]
    ELSE st

RECURSIVE CopyEach(_, _)
\* One try block per item; an exception that leaves a block ends the call.
CopyEach(items, st) ==
    IF items = <<>> \/ st.raised THEN st
    ELSE CopyEach(Tail(items),
                  except_Exception(Head(items), try_copy(Head(items), st)))

CopyItems(files, dir) ==
    CopyEach(files \o <<dir>>,
             [root |-> rootItems, printed |-> <<>>, raised |-> FALSE])

CiifyCopy == "ciify.copy_files_to_root"
BoardlessifyCopy == "boardlessify.copy_files_to_root"

InitCopy ==
    \E src \in [Items -> ItemStates] : InitFiles(NoFile, FALSE, src)

CalledCopy(name, files) ==
    LET st == CopyItems(files, dir_to_copy)
    IN  /\ pc = "unit"
        /\ calls < MaxCalls
        /\ calls' = calls + 1
        /\ rootItems' = st.root
        /\ printed' = st.printed
        /\ IF st.raised THEN Raise(name) ELSE UNCHANGED <<pc, failedAt>>
        /\ UNCHANGED <<repoVars, out, ops, slcp, pintool, srcItems>>
        /\ UNCHANGED <<run, edits, startHeads, startLen, startSubdir, initLen,
                     inSuccession, fresh, warned, crash>>

U_CiifyCopy ==
    /\ CalledCopy(CiifyCopy, files_to_copy)
    /\ op' = <<CiifyCopy, files_to_copy>>

U_BoardlessifyCopy ==
    /\ CalledCopy(BoardlessifyCopy, files_to_copy_boardlessify)
    /\ op' = <<BoardlessifyCopy, files_to_copy_boardlessify>>

NextCopy == U_CiifyCopy \/ U_BoardlessifyCopy

SpecCopy == InitCopy /\ [][NextCopy]_vars

(***************************************************************************)
(* Vocabulary of the properties.                                           *)
(***************************************************************************)
\* The first line of the message of commit c is exactly the subject.
HasSubject(c, subject) ==
    /\ SplitLines(commits[c].message) # <<>>
    /\ SplitLines(commits[c].message)[1] = <<subject>>

WithSubject(rev, subject) ==
    IF heads[rev] = 0 THEN {}
    ELSE {c \in Reachable(heads[rev]) : HasSubject(c, subject)}

\* The commits the runs of the pipeline have created.
PipelineCommits == (initLen + 1)..Len(commits)

(***************************************************************************)
(* C1: a run of the pipeline that starts where a completed run ended, with *)
(* nothing changed in between (the checkout of si_gh_actions included),    *)
(* creates no commit and leaves every branch tip where it was.             *)
(***************************************************************************)
C1_SecondRunCreatesNothing ==
    (pc = "done" /\ inSuccession /\ subdir = startSubdir)
        => (Len(commits) = startLen /\ heads = startHeads)

(***************************************************************************)
(* C2: at most one commit with subject "Initial Boardful commit" is        *)
(* reachable from main, and at most one "CI: add workflows and metadata"   *)
(* and one "Initial Boardless commit" from dev, in every reachable state.  *)
(***************************************************************************)
C2_AtMostOnePerSubject ==
    /\ Cardinality(WithSubject("main", BOARDFUL)) <= 1
    /\ Cardinality(WithSubject("dev", CI_ASSETS)) <= 1
    /\ Cardinality(WithSubject("dev", BOARDLESS)) <= 1

(***************************************************************************)
(* C3: after a run that completed, has_commit_with_subject is true for the *)
(* three subjects, Boardful on main, CI assets and Boardless on dev.       *)
(***************************************************************************)
C3_AllSubjectsAfterRun ==
    pc = "done" =>
        /\ has_commit_with_subject("main", BOARDFUL)
        /\ has_commit_with_subject("dev", CI_ASSETS)
        /\ has_commit_with_subject("dev", BOARDLESS)

(***************************************************************************)
(* C4: every commit the pipeline creates (each is created after staging    *)
(* si_gh_actions) records si_gh_actions as a gitlink.                      *)
(***************************************************************************)
C4_PipelineCommitsAreGitlinks ==
    \A c \in PipelineCommits : commits[c].tree[SUB] = Gitlink

(***************************************************************************)
(* C5: when assert_gitlink fails in step 3 or in step 6 the run ends       *)
(* there: the step creates no commit and changes nothing, and the next     *)
(* step taken is that of a new run or an outside edit.  After a failure in *)
(* step 3 no commit has been made since the run started, main is still     *)
(* checked out and dev was not created; after a failure in step 6 the run  *)
(* has made no Boardless commit.                                           *)
(***************************************************************************)
C5_AssertFailurePropagates ==
    /\ [][(pc \in {"assert3", "assert6"} /\ ~GitlinkStaged)
            => (pc' = "aborted" /\ failedAt' = pc /\ UNCHANGED repoVars)]_vars
    /\ [][pc = "aborted" => (run' = run + 1 \/ edits' = edits + 1)]_vars
    /\ []((pc = "aborted" /\ failedAt = "assert3")
            => /\ Len(commits) = startLen
               /\ HEAD = "main"
               /\ heads["dev"] \in {0, startHeads["dev"]})
    /\ []((pc = "aborted" /\ failedAt = "assert6")
            => \A c \in (startLen + 1)..Len(commits) : ~HasSubject(c, BOARDLESS))

\* A run failed its gitlink check in step 3 on a repository without dev.
C5_Witness ==
    pc = "aborted" /\ failedAt = "assert3" /\ heads["dev"] = 0 /\ ~GitlinkStaged

(***************************************************************************)
(* C6: after the first run on a repository without main and dev, with the  *)
(* submodule present and a board entry in the manifest: main contains the  *)
(* Boardful commit, dev descends from the tip of main and contains the CI  *)
(* assets commit and, later in history, the Boardless commit, and the      *)
(* manifest on dev has no board entry.                                     *)
(***************************************************************************)
C6_EndToEnd ==
    (pc = "done" /\ fresh /\ run = 1) =>
        /\ heads["main"] # 0
        /\ WithSubject("main", BOARDFUL) # {}
        /\ heads["dev"] # 0
        /\ heads["main"] \in Reachable(heads["dev"])
        /\ \E a \in WithSubject("dev", CI_ASSETS) :
              \E b \in WithSubject("dev", BOARDLESS) :
                  a \in Reachable(commits[b].parent)
        /\ ~ManifestHasBoardEntry(commits[heads["dev"]].tree[MF])

(***************************************************************************)
(* C7: dev is created only when it does not exist and is otherwise checked *)
(* out without moving; in every step dev stays a branch whose old tip is   *)
(* reachable from its new tip, and the tip of every branch stays reachable *)
(* from some branch.                                                       *)
(***************************************************************************)
C7_DevNeverReset ==
    [][/\ (pc = "ensure_dev" /\ pc' = "guard5")
            => heads' = (IF branch_exists("dev") THEN heads
                         ELSE [heads EXCEPT !["dev"] = heads[HEAD]])
       /\ heads["dev"] # 0
            => /\ heads'["dev"] # 0
               /\ heads["dev"] \in ReachableIn(commits', heads'["dev"])
       /\ \A b \in Branches :
            heads[b] # 0
                => \E b2 \in Branches :
                      /\ heads'[b2] # 0
                      /\ heads[b] \in ReachableIn(commits', heads'[b2])]_vars

(***************************************************************************)
(* C10: has_commit_with_subject(rev, subject) is true exactly when a       *)
(* commit reachable from rev has a first message line equal to subject,    *)
(* and false when rev does not exist.                                      *)
(***************************************************************************)
C10_TrueExactlyWhenReachable ==
    \A rev \in Branches :
        \A subject \in Subjects :
            has_commit_with_subject(rev, subject)
                <=> WithSubject(rev, subject) # {}

(***************************************************************************)
(* C8: a commit step creates exactly one commit, with the given message on *)
(* the checked-out branch, if and only if changes are pending in its scope *)
(* (commit_if_staged: staged; commit_if_needed: staged, unstaged or        *)
(* untracked; stage_and_commit: unstaged or untracked); with nothing       *)
(* staged and nothing changed in the working tree it creates no commit,    *)
(* leaves HEAD and the index unchanged and says so.                        *)
(***************************************************************************)
PendingStaged == index # HeadTree

PendingInWorkTree ==
    \E p \in FilePaths :
        wt[p] # index[p] /\ ~(index[p] = 0 /\ Ignored(p, wt))

C8_CommitGating ==
    [][calls' = calls + 1 =>
        LET inScope ==
                \/ op'[1] = "commit_if_staged" /\ PendingStaged
                \/ op'[1] = "commit_if_needed"
                       /\ (PendingStaged \/ PendingInWorkTree)
                \/ op'[1] = "stage_and_commit" /\ PendingInWorkTree
        IN  /\ inScope =>
                /\ Len(commits') = Len(commits) + 1
                /\ commits'[Len(commits')].message = MessageOf(op'[2])
                /\ commits'[Len(commits')].parent = heads[HEAD]
                /\ heads' = [heads EXCEPT ![HEAD] = Len(commits')]
                /\ out' = CommitMade
            /\ ~inScope => UNCHANGED <<commits, heads, HEAD>>
            /\ (~PendingStaged /\ ~PendingInWorkTree) =>
                /\ UNCHANGED <<commits, heads, HEAD, index>>
                /\ out' \in {NoStagedChanges, NoChanges}]_vars

\* commit_if_needed has been applied to a clean repository.
C8_Witness ==
    /\ calls > 0
    /\ op[1] = "commit_if_needed"
    /\ out = NoChanges
    /\ index = HeadTree
    /\ ~PendingInWorkTree

(***************************************************************************)
(* C9: stage_and_commit passes every path deleted in the working tree to   *)
(* the index removal only, every other modified path to the index add      *)
(* only, and makes the removal before that add; no path is passed to both. *)
(***************************************************************************)
C9_DeletionCorrectness ==
    [][(calls' = calls + 1 /\ op'[1] = "stage_and_commit") =>
        LET D == {p \in FilePaths : index[p] # 0 /\ wt[p] = 0}
            M == {p \in FilePaths :
                    index[p] # 0 /\ wt[p] # 0 /\ wt[p] # index[p]}
            n == Len(ops')
            removes == {i \in 1..n : ops'[i].kind = "remove"}
            adds == {i \in 1..n : ops'[i].kind = "add"}
        IN  /\ \A i \in removes : ops'[i].paths = D
            /\ D # {} => removes # {}
            /\ \A i \in adds : ops'[i].paths \cap D = {}
            /\ M # {} => \E j \in adds :
                            /\ ops'[j].paths = M
                            /\ \A i \in removes : i < j
            /\ \A p \in D : index'[p] = 0
            /\ \A p \in M : index'[p] = wt[p]]_vars

\* A call has removed deleted paths and then added modified ones.
C9_Witness ==
    /\ calls > 0
    /\ op[1] = "stage_and_commit"
    /\ \E i \in 1..Len(ops) : \E j \in 1..Len(ops) :
          i < j /\ ops[i].kind = "remove" /\ ops[j].kind = "add"

(***************************************************************************)
(* C11: boardlessify.cleanup_yaml_and_files removes from the "component"   *)
(* list exactly the records whose id starts with "brd" or "EFR32" and      *)
(* keeps every other item in its original order (brd4001, EFR32MG12, uart  *)
(* leave exactly uart); applied to its own output it changes nothing.      *)
(***************************************************************************)
ComponentList(file) ==
    LET E == file.entries
        at == {i \in 1..Len(E) : E[i].key = COMPONENT /\ E[i].list}
    IN  IF at = {} THEN <<>> ELSE E[CHOOSE i \in at : TRUE].items

HasBoardId(item) ==
    /\ item.dict
    /\ item.hasId
    /\ (StartsWith(item.id, brd) \/ StartsWith(item.id, EFR32))

KeptItem(item) == ~HasBoardId(item)

C11_FilterRoundTrip ==
    [][(calls' = calls + 1 /\ op'[1] = BoardlessifyCleanup /\ slcp.exists) =>
        /\ ComponentList(slcp') = SelectSeq(ComponentList(slcp), KeptItem)
        /\ {slcp'.entries[i].key : i \in 1..Len(slcp'.entries)}
              = {slcp.entries[i].key : i \in 1..Len(slcp.entries)}
        /\ ComponentList(slcp)
                = <<Record(Brd4001), Record(EFR32MG12), Record(Uart)>>
              => ComponentList(slcp') = <<Record(Uart)>>
        /\ (calls > 0 /\ op[1] = BoardlessifyCleanup) => slcp' = slcp]_vars

\* The cleanup has been applied to brd4001, EFR32MG12, uart in a manifest
\* whose keys were not in order.
C11_Witness ==
    /\ calls > 0
    /\ op[1] = BoardlessifyCleanup
    /\ ComponentList(op[2])
          = <<Record(Brd4001), Record(EFR32MG12), Record(Uart)>>
    /\ op[2].entries # SortByKey(op[2].entries)
    /\ ComponentList(slcp) = <<Record(Uart)>>

(***************************************************************************)
(* C12: after cleanup_yaml_and_files has rewritten a manifest, no entry at *)
(* the level it filters (the records of "component" for boardlessify.py,   *)
(* the top-level keys for deploy_boardless_versioner.py) has an identifier *)
(* starting with "brd", "EFR32" or "efr32".                                *)
(***************************************************************************)
HasBoardPrefix(str) ==
    StartsWith(str, brd) \/ StartsWith(str, EFR32) \/ StartsWith(str, efr32)

C12_NoBoardEntryAfterCleanup ==
    (calls > 0 /\ slcp.exists) =>
        /\ op[1] = BoardlessifyCleanup =>
              \A i \in 1..Len(ComponentList(slcp)) :
                  LET item == ComponentList(slcp)[i]
                  IN  (item.dict /\ item.hasId) => ~HasBoardPrefix(item.id)
        /\ op[1] = DeployCleanup =>
              \A i \in 1..Len(slcp.entries) :
                  ~HasBoardPrefix(slcp.entries[i].key)

(***************************************************************************)
(* C13: copy_files_to_root treats every item of its list independently:    *)
(* whatever subset of the items is missing or fails to copy, no exception  *)
(* leaves the call, every item is attempted once and a line is printed for *)
(* it, a missing or failing item is skipped, and every item whose source   *)
(* exists and copies is at the repository root afterwards.                 *)
(***************************************************************************)
LinesAbout(lines, item) == {i \in 1..Len(lines) : lines[i][2] = item}

C13_ItemsIndependent ==
    [][(calls' = calls + 1 /\ op'[1] \in {CiifyCopy, BoardlessifyCopy}) =>
        LET list == {op'[2][i] : i \in 1..Len(op'[2])} \cup {GITHUB}
        IN  /\ pc' = "unit"
            /\ failedAt' = ""
            /\ \A item \in list :
                  /\ Cardinality(LinesAbout(printed', item)) = 1
                  /\ srcItems[item] = "ok" =>
                        /\ item \in rootItems'
                        /\ <<Copied, item>> \in
                              {printed'[i] : i \in 1..Len(printed')}
                  /\ srcItems[item] = "missing" =>
                        /\ item \in rootItems' <=> item \in rootItems
                        /\ <<NotFound, item>> \in
                              {printed'[i] : i \in 1..Len(printed')}
                  /\ srcItems[item] = "fails" =>
                        /\ item \in rootItems' <=> item \in rootItems
                        /\ <<ErrorCopying, item>> \in
                              {printed'[i] : i \in 1..Len(printed')}
            /\ \A item \in Items \ list :
                  item \in rootItems' <=> item \in rootItems]_vars

\* ciify's copy has met a failing first item and a missing second one and
\* has still copied the directory.
C13_Witness ==
    /\ calls > 0
    /\ op[1] = CiifyCopy
    /\ srcItems[CL] = "fails"
    /\ srcItems[VERSION] = "missing"
    /\ srcItems[GITHUB] = "ok"
    /\ GITHUB \in rootItems
    /\ pc = "unit"

(***************************************************************************)
(* C14: a failure of the submodule sync or update in step 2 is a warning:  *)
(* the step after it is the guard of step 3, as after a success, with no   *)
(* exception recorded and the repository as it was; no run ever ends at    *)
(* the submodule step.                                                     *)
(***************************************************************************)
C14_SyncFailureIsWarning ==
    /\ [][pc = "submodule"
            => /\ pc' = "guard3"
               /\ failedAt' = failedAt
               /\ UNCHANGED <<commits, heads, HEAD, index, wt>>
               /\ warned' => subdir' = subdir]_vars
    /\ [](failedAt # "submodule")
    /\ []((warned /\ pc = "aborted") => failedAt \in {"stage3", "assert3",
              "ensure_dev", "stage5", "stage6", "assert6"})

\* A run has completed all its steps after the warning.
C14_Witness == pc = "done" /\ warned /\ failedAt = ""

(***************************************************************************)
(* C15: whenever a step of the pipeline is about to stage si_gh_actions    *)
(* (steps 3, 5 and 6), si_gh_actions/.git is not a directory, whatever it  *)
(* was when the run started and whatever the submodule update did.         *)
(***************************************************************************)
StagingSteps == {"stage3", "stage5", "stage6"}

StepSubject == [step3 |-> BOARDFUL, step5 |-> CI_ASSETS, step6 |-> BOARDLESS]
StepBranch == [step3 |-> "main", step5 |-> "dev", step6 |-> "dev"]

\* The paths the interrupted run left staged.
Leftover == {p \in Paths : crash.index[p] # crash.tree[p]}

\* The run after the interrupted one has ended.
AfterCrash ==
    /\ crash.at # ""
    /\ run = crash.run + 1
    /\ Leftover # {}
    /\ startSubdir = "gitfile"
    /\ pc \in {"done", "aborted"}

\* The commits of the current run that record a leftover entry their
\* parent does not have.
Carriers ==
    {c \in (startLen + 1)..Len(commits) :
        \E p \in Leftover :
            /\ commits[c].tree[p] = crash.index[p]
            /\ commits[commits[c].parent].tree[p] # crash.index[p]}

C16_SelfHealing ==
    AfterCrash =>
        /\ pc = "done"
        /\ Carriers # {}
        /\ LET c == CHOOSE x \in Carriers : \A y \in Carriers : x <= y
           IN  /\ HasSubject(c, StepSubject[crash.at])
               /\ c \in Reachable(heads[StepBranch[crash.at]])
               /\ StepBranch[crash.at] = "dev"
                     => c \notin Reachable(heads["main"])

(***************************************************************************)
(* C17: a call of stage_submodule_and_ci changes the index entry of no     *)
(* path but .gitmodules, si_gh_actions, .gitignore and the copied CI       *)
(* files, an entry it writes at si_gh_actions is a gitlink, the working    *)
(* tree, HEAD and the branches stay as they are, and a listed path that    *)
(* does not exist in the working tree is skipped: its entry is left alone  *)
(* and the call does not raise.                                            *)
(***************************************************************************)
StagedPaths == {GM, SUB, GI, CL}

C17_StagesOnlyIntended ==
    [][(pc \in StagingSteps) =>
        /\ \A p \in Paths \ StagedPaths : index'[p] = index[p]
        /\ index'[SUB] # index[SUB] => index'[SUB] = Gitlink
        /\ UNCHANGED <<wt, subdir, HEAD, heads, commits>>
        /\ \A p \in {GM, GI, CL} : wt[p] = 0 => index'[p] = index[p]
        /\ subdir = "absent" => index'[SUB] = index[SUB]
        /\ (subdir = "absent" \/ \E p \in {GM, GI, CL} : wt[p] = 0)
              => (pc' # "aborted")]_vars

(***************************************************************************)
(* C18: the protection of .gitmodules lasts for the run: at every staging  *)
(* step (3, 5 and 6) a .gitignore at the repository root contains the line *)
(* "!.gitmodules", and protect_gitmodules leaves a file that has the line  *)
(* as it is.                                                               *)
(***************************************************************************)
HasProtectLine(blob) ==
    \E i \in 1..Len(GitignoreLines(blob)) : GitignoreLines(blob)[i] = ProtectLine

C18_ProtectionLasts ==
    /\ (pc \in StagingSteps /\ wt[GI] # 0) => HasProtectLine(wt[GI])
    /\ \A b \in 1..Len(GitignoreBlobs) :
          HasProtectLine(b) =>
              protect_gitmodules([wt EXCEPT ![GI] = b])[GI] = b

(***************************************************************************)
(* C19: "Initial Boardful commit" is created only while main is checked    *)
(* out and moves only main; "CI: add workflows and metadata" and "Initial  *)
(* Boardless commit" are created only while dev is checked out; from the   *)
(* checkout of dev in step 4 to the end of the run the tip of main does    *)
(* not move; and no step makes a commit with one of the two dev subjects   *)
(* reachable from main.                                                    *)
(***************************************************************************)
DevSubjects == {CI_ASSETS, BOARDLESS}

FirstLineIs(message, subject) ==
    /\ SplitLines(message) # <<>>
    /\ SplitLines(message)[1] = <<subject>>

C19_CommitsOnOwnBranch ==
    [][/\ Len(commits') = Len(commits) + 1 =>
            LET c == Len(commits')
            IN  /\ FirstLineIs(commits'[c].message, BOARDFUL)
                    => /\ HEAD = "main"
                       /\ heads' = [heads EXCEPT !["main"] = c]
                /\ (\E subject \in DevSubjects :
                        FirstLineIs(commits'[c].message, subject))
                    => /\ HEAD = "dev"
                       /\ heads' = [heads EXCEPT !["dev"] = c]
       /\ pc \notin (Resting \cup {"protect", "preclean", "submodule", "guard3",
                                  "stage3", "assert3", "commit3", "ensure_dev"})
            => heads'["main"] = heads["main"]
       /\ \A subject \in DevSubjects :
            WithSubject("main", subject)' \subseteq WithSubject("main", subject)
      ]_vars

(***************************************************************************)
(* C20: after boardlessify.stage_and_commit nothing is pending: the index  *)
(* equals the tree of HEAD, no tracked file differs from the index and no  *)
(* untracked file that is not ignored remains.                             *)
(***************************************************************************)
C20_NothingPendingAfter ==
    (calls > 0 /\ op[1] = "stage_and_commit") =>
        /\ index = HeadTree
        /\ ModifiedFiles(index, wt) = {}
        /\ UntrackedFiles(index, wt) = {}

====
